---------------------------- MODULE Spec2Model ----------------------------
(***************************************************************************)
(* A model of vintage_story_mods.py: the cached fetch (download_load_data),*)
(* the UnixTimestamp column codec, main as written, and the load loop of   *)
(* main (lines 194-236).                                                   *)
(*                                                                         *)
(* Four specifications share the variables:                                *)
(*   FetchSpec  download_load_data called with arbitrary arguments;        *)
(*   CodecSpec  UnixTimestamp.process_bind_param / process_result_value;   *)
(*   Spec       main as written (fetch, index, session, query, exit);      *)
(*   LoadSpec   the load loop of main, started at line 194.                *)
(***************************************************************************)
EXTENDS Integers, Sequences, FiniteSets, TLC

VARIABLES
    fs,        \* the files: path -> [exists, ok, val] (ok: the text is valid JSON)
    web,       \* the remote side: url -> what an HTTP GET of it yields
    nGet,      \* HTTP GET requests issued so far
    nWrite,    \* files opened for writing so far
    call,      \* the running download_load_data call: its arguments and position
    ret,       \* how the last download_load_data call ended
    hist,      \* history: fs, nGet and nWrite when the running call began
    nCalls,    \* download_load_data calls begun
    pc,        \* the position of main ("harness" when main is not running)
    tz,        \* the process's local time zone
    cin,       \* the value handed to the UnixTimestamp column
    bound,     \* what process_bind_param returned for it
    cell,      \* what the lastreleased column of the row holds
    out,       \* what process_result_value returned for the cell
    mods,      \* the mods collection in memory
    authors_by_name,  \* the index of the authors collection by name
    mi,        \* the position of "for mod_dict in mods"
    ai,        \* the position of "for mod_str in mod_id_strs"
    ti,        \* the position of "for tag_str in tag_strs"
    author,    \* the local author of main
    mod,       \* the local mod of main
    store,     \* the committed rows of the store file
    pending,   \* the mod_tag rows of the session's open transaction
    exc,       \* the exception that ended main
    runs,      \* history: runs of the load loop begun
    store0,    \* history: the store before the first run
    prev,      \* history: how the run before this one ended, and the store then
    iterStore, \* history: the store when the running iteration of the mod loop began
    killed     \* history: a run was killed

fetchVars == <<fs, web, nGet, nWrite, call, ret, hist, nCalls>>
codecVars == <<tz, cin, bound, cell, out>>
progVars == <<mi, ai, ti, author, mod, store, pending, exc>>
histVars == <<runs, store0, prev, iterStore, killed>>
loadRest == <<mods, authors_by_name, mi, ai, ti, author, mod, store, pending, histVars>>
loadVars == <<mods, authors_by_name, progVars, histVars>>
vars == <<fetchVars, pc, codecVars, loadVars>>

-----------------------------------------------------------------------------
(* Bounds *)

\* download_load_data calls in one behaviour of FetchSpec
MaxCalls == 2

\* runs of the load loop in one behaviour of LoadSpec
MaxRuns == 2

-----------------------------------------------------------------------------
(* Files, URLs, JSON *)

mods_file == "mods.json"
authors_file == "authors.json"
ModsUrl == "https://mods.vintagestory.at/api/mods"
AuthorsUrl == "https://mods.vintagestory.at/api/authors"

Paths == {mods_file, authors_file}
Urls == {ModsUrl, AuthorsUrl}
Keys == {"mods", "authors", "X"}

\* The arrays FetchSpec moves around (JSON arrays of strings).
FetchArrays == {<< >>, <<"a", "b">>, <<"c">>}

NoFile == [exists |-> FALSE, ok |-> FALSE, val |-> << >>]
\* json.dump(mods, fw): the file holds the JSON text of the value.
JsonDump(v) == [exists |-> TRUE, ok |-> TRUE, val |-> v]
\* A file whose text is not valid JSON (truncated, hand-edited).
BadFile == [exists |-> TRUE, ok |-> FALSE, val |-> << >>]

\* json.loads(fr.read()): the value, or a JSONDecodeError.
JsonLoads(f) ==
    IF f.ok THEN [status |-> "ok", val |-> f.val, err |-> ""]
    ELSE [status |-> "raised", val |-> << >>, err |-> "JSONDecodeError"]

\* What requests.get(url) followed by .json() can meet.
\*   neterr: requests.get raises; text: the body is not JSON;
\*   json: the body is the JSON object {k: val for k in keys}.
Responses(arrays) ==
    {[kind |-> "neterr", keys |-> {}, val |-> << >>],
     [kind |-> "text", keys |-> {}, val |-> << >>]}
    \cup {[kind |-> "json", keys |-> ks, val |-> a] : ks \in {{}, {"X"}, {"mods", "authors"}}, a \in arrays \ {<< >>}}

FileStates(arrays) == {NoFile, BadFile} \cup {JsonDump(a) : a \in arrays}

NoRet == [status |-> "none", val |-> << >>, err |-> ""]
Raised(e) == [status |-> "raised", val |-> << >>, err |-> e]
Returned(v) == [status |-> "ok", val |-> v, err |-> ""]

IdleCall == [pc |-> "idle", url |-> "", path |-> "", key |-> "", resp |-> "", val |-> << >>]

-----------------------------------------------------------------------------
(* download_load_data, one action per statement *)

\* An exception leaving download_load_data: the call ends, and main (when it is
\* the caller) ends with it.
Raise(e) ==
    /\ ret' = Raised(e)
    /\ call' = [call EXCEPT !.pc = "raised"]
    /\ pc' = IF pc = "harness" THEN pc ELSE "raised"
    /\ exc' = IF pc = "harness" THEN exc ELSE e

\* def download_load_data(url, filepath, key): the call begins.
EnterCall(url, path, key) ==
    /\ call' = [IdleCall EXCEPT !.pc = "exists", !.url = url, !.path = path, !.key = key]
    /\ hist' = [fs |-> fs, nGet |-> nGet, nWrite |-> nWrite]
    /\ ret' = NoRet
    /\ nCalls' = nCalls + 1

\* Mutant: the cache file is never found.
PathExists_Never(f) == FALSE

\* if not filepath.exists():
PathExists(f) == f.exists

CheckExists ==
    /\ call.pc = "exists"
    /\ call' = [call EXCEPT !.pc = IF PathExists(fs[call.path]) THEN "read" ELSE "get"]
    /\ UNCHANGED <<fs, web, nGet, nWrite, ret, hist, nCalls, pc, exc, codecVars, loadRest>>

\* Mutant: the cache file is opened for writing before the request is made.
HttpGet_OpenFirst ==
    /\ call.pc = "get"
    /\ nGet' = nGet + 1
    /\ fs' = [fs EXCEPT ![call.path] = BadFile]
    /\ IF web[call.url].kind = "neterr"
       THEN Raise("ConnectionError")
       ELSE /\ call' = [call EXCEPT !.pc = "json", !.resp = web[call.url].kind]
            /\ UNCHANGED <<ret, pc, exc>>
    /\ UNCHANGED <<web, nWrite, hist, nCalls, codecVars, loadRest>>

\* mods_resp = requests.get(url)
HttpGet ==
    /\ call.pc = "get"
    /\ nGet' = nGet + 1
    /\ IF web[call.url].kind = "neterr"
       THEN Raise("ConnectionError")
       ELSE /\ call' = [call EXCEPT !.pc = "json", !.resp = web[call.url].kind]
            /\ UNCHANGED <<ret, pc, exc>>
    /\ UNCHANGED <<fs, web, nWrite, hist, nCalls, codecVars, loadRest>>

\* mods_response_json = mods_resp.json()
RespJson ==
    /\ call.pc = "json"
    /\ IF call.resp = "text"
       THEN Raise("JSONDecodeError")
       ELSE /\ call' = [call EXCEPT !.pc = "key"]
            /\ UNCHANGED <<ret, pc, exc>>
    /\ UNCHANGED <<fs, web, nGet, nWrite, hist, nCalls, codecVars, loadRest>>

\* mods = mods_response_json[key]
ExtractKey ==
    /\ call.pc = "key"
    /\ IF call.key \notin web[call.url].keys
       THEN Raise("KeyError")
       ELSE /\ call' = [call EXCEPT !.pc = "write", !.val = web[call.url].val]
            /\ UNCHANGED <<ret, pc, exc>>
    /\ UNCHANGED <<fs, web, nGet, nWrite, hist, nCalls, codecVars, loadRest>>

\* with filepath.open('w') as fw: json.dump(mods, fw)
WriteTarget(c) == c.path

WriteCache ==
    /\ call.pc = "write"
    /\ fs' = [fs EXCEPT ![WriteTarget(call)] = JsonDump(call.val)]
    /\ nWrite' = nWrite + 1
    /\ call' = [call EXCEPT !.pc = "read"]
    /\ UNCHANGED <<web, nGet, ret, hist, nCalls, pc, exc, codecVars, loadRest>>

\* with filepath.open('r') as fr: mods = json.loads(fr.read()); return mods
ReadCache ==
    /\ call.pc = "read"
    /\ LET r == JsonLoads(fs[call.path]) IN
       IF r.status = "raised"
       THEN Raise(r.err)
       ELSE /\ ret' = Returned(r.val)
            /\ call' = [call EXCEPT !.pc = "returned", !.val = r.val]
            /\ UNCHANGED <<pc, exc>>
    /\ UNCHANGED <<fs, web, nGet, nWrite, hist, nCalls, codecVars, loadRest>>

FetchSteps == CheckExists \/ HttpGet \/ RespJson \/ ExtractKey \/ WriteCache \/ ReadCache

CallEnded == call.pc \in {"idle", "returned", "raised"}

-----------------------------------------------------------------------------
(* Calendar arithmetic used by datetime (proleptic Gregorian, whole seconds) *)

\* A naive datetime.datetime: no tzinfo, fold 0.
Cal(Y, M, D, h, m, s, us) == [Y |-> Y, M |-> M, D |-> D, h |-> h, m |-> m, s |-> s, us |-> us]
NoCal == Cal(0, 0, 0, 0, 0, 0, 0)

IsLeap(y) == (y % 4 = 0) /\ ((y % 100 # 0) \/ (y % 400 = 0))

DaysInMonth(y, m) ==
    IF m = 2 THEN (IF IsLeap(y) THEN 29 ELSE 28)
    ELSE IF m \in {4, 6, 9, 11} THEN 30 ELSE 31

\* Days from 1970-01-01 to the civil date y-m-d.
DaysFromCivil(y, m, d) ==
    LET yy == IF m <= 2 THEN y - 1 ELSE y
        era == yy \div 400
        yoe == yy - era * 400
        mp == IF m > 2 THEN m - 3 ELSE m + 9
        doy == (153 * mp + 2) \div 5 + d - 1
        doe == yoe * 365 + yoe \div 4 - yoe \div 100 + doy
    IN  era * 146097 + doe - 719468

\* The civil date of day z counted from 1970-01-01.
CivilFromDays(z) ==
    LET zz == z + 719468
        era == zz \div 146097
        doe == zz - era * 146097
        yoe == (doe - doe \div 1460 + doe \div 36524 - doe \div 146096) \div 365
        doy == doe - (365 * yoe + yoe \div 4 - yoe \div 100)
        mp == (5 * doy + 2) \div 153
        d == doy - (153 * mp + 2) \div 5 + 1
        m == IF mp < 10 THEN mp + 3 ELSE mp - 9
        y == yoe + era * 400 + (IF m <= 2 THEN 1 ELSE 0)
    IN  [Y |-> y, M |-> m, D |-> d]

\* Seconds from 1970-01-01 00:00:00 to the calendar fields read as UTC.
UtcToSeconds(c) == DaysFromCivil(c.Y, c.M, c.D) * 86400 + c.h * 3600 + c.m * 60 + c.s

\* The calendar fields of second t read as UTC.
SecondsToCal(t) ==
    LET days == t \div 86400
        rem == t % 86400
        ymd == CivilFromDays(days)
    IN  Cal(ymd.Y, ymd.M, ymd.D, rem \div 3600, (rem % 3600) \div 60, rem % 60, 0)

-----------------------------------------------------------------------------
(* The local time zone of the process *)

\* A zone: the standard offset, the daylight offset, and the UTC instants
\* between which the daylight offset is in force (seconds).
Zone(std, dst, start, end) == [std |-> std, dst |-> dst, start |-> start, end |-> end]

\* UTC; America/New_York in 2023 (EST -5h, EDT -4h from 2023-03-12 07:00 UTC
\* to 2023-11-05 06:00 UTC; the transitions of other years are not modelled);
\* Asia/Kolkata (+5h30, no daylight time).
UTC == Zone(0, 0, 0, 0)

Zones ==
    {UTC,
     Zone(-18000, -14400, 1678604400, 1699164000),
     Zone(19800, 19800, 0, 0)}

UtcOffset(z, u) == IF z.start <= u /\ u < z.end THEN z.dst ELSE z.std

\* time.localtime(u), as seconds: the local wall clock at instant u.
Local(z, u) == u + UtcOffset(z, u)

\* datetime.timestamp() of a naive datetime with fold 0: solve t = Local(u).
LocalToSeconds(z, c) ==
    LET t == UtcToSeconds(c)
        a == Local(z, t) - t
        u1 == t - a
        t1 == Local(z, u1)
        u2f == u1 - 24 * 3600
        bf == Local(z, u2f) - u2f
        b == IF t1 = t THEN bf ELSE t1 - u1
        u2 == t - b
        t2 == Local(z, u2)
    IN  IF t1 = t /\ a = bf THEN u1
        ELSE IF t2 = t THEN u2
        ELSE IF t1 = t THEN u1
        ELSE IF u1 > u2 THEN u1 ELSE u2

\* datetime.datetime.fromtimestamp(v): the local calendar time of instant v.
FromTimestamp(z, secs, us) == [SecondsToCal(Local(z, secs)) EXCEPT !.us = us]

-----------------------------------------------------------------------------
(* Strings as sequences of characters; strptime(datestr, '%Y-%m-%d %H:%M:%S') *)

Digits == <<"0", "1", "2", "3", "4", "5", "6", "7", "8", "9">>
Pad2(n) == <<Digits[((n \div 10) % 10) + 1], Digits[(n % 10) + 1]>>
Pad4(n) == Pad2(n \div 100) \o Pad2(n % 100)

\* '%Y-%m-%d %H:%M:%S' written with zero padding.
FormatCal(c) ==
    Pad4(c.Y) \o <<"-">> \o Pad2(c.M) \o <<"-">> \o Pad2(c.D) \o <<" ">>
    \o Pad2(c.h) \o <<":">> \o Pad2(c.m) \o <<":">> \o Pad2(c.s)

\* The same without padding of the two-digit fields ("2023-5-1 1:2:3").
Bare(n) == IF n < 10 THEN <<Digits[n + 1]>> ELSE Pad2(n)
FormatCalBare(c) ==
    Pad4(c.Y) \o <<"-">> \o Bare(c.M) \o <<"-">> \o Bare(c.D) \o <<" ">>
    \o Bare(c.h) \o <<":">> \o Bare(c.m) \o <<":">> \o Bare(c.s)

At(str, i) == IF i >= 1 /\ i <= Len(str) THEN str[i] ELSE ""

\* The decimal digits of another script, named by code point: ARABIC-INDIC
\* DIGIT ZERO .. NINE stand for the non-ASCII characters that \d matches and
\* int() converts.
ArabicIndic ==
    <<"U+0660", "U+0661", "U+0662", "U+0663", "U+0664",
      "U+0665", "U+0666", "U+0667", "U+0668", "U+0669">>

\* \d of a str pattern: any decimal digit.
IsDigit(c) == \E i \in 1..10 : Digits[i] = c \/ ArabicIndic[i] = c
DigitVal(c) == (CHOOSE i \in 1..10 : Digits[i] = c \/ ArabicIndic[i] = c) - 1
DigitAt(str, i) == IsDigit(At(str, i))
AnyDigit == {Digits[i] : i \in 1..10} \cup {ArabicIndic[i] : i \in 1..10}

\* [lo-hi] of a pattern: ASCII digits only.
Range(lo, hi) == {Digits[k + 1] : k \in lo..hi}

\* \s of a str pattern: the blank, the ASCII controls \t \n \r \f \v, and of
\* the others NO-BREAK SPACE and IDEOGRAPHIC SPACE, named by code point.
Whitespace == {" ", "\t", "\n", "\r", "\f", "U+000B", "U+00A0", "U+3000"}

\* The elements of a pattern: a literal character, \s+, or a group of
\* alternatives, each alternative a sequence of character classes.
PLit(c) == [kind |-> "lit", ch |-> c, alts |-> << >>]
PBlanks == [kind |-> "blanks", ch |-> "", alts |-> << >>]
PGroup(as) == [kind |-> "group", ch |-> "", alts |-> as]

\* _strptime.TimeRE: the patterns of the directives.
DirectiveY == PGroup(<< <<AnyDigit, AnyDigit, AnyDigit, AnyDigit>> >>)
DirectiveM == PGroup(<< <<{"1"}, Range(0, 2)>>, <<{"0"}, Range(1, 9)>>, <<Range(1, 9)>> >>)
DirectiveD ==
    PGroup(<< <<{"3"}, Range(0, 1)>>, <<Range(1, 2), AnyDigit>>, <<{"0"}, Range(1, 9)>>,
              <<Range(1, 9)>>, <<{" "}, Range(1, 9)>> >>)
DirectiveH == PGroup(<< <<{"2"}, Range(0, 3)>>, <<Range(0, 1), AnyDigit>>, <<AnyDigit>> >>)
DirectiveMin == PGroup(<< <<Range(0, 5), AnyDigit>>, <<AnyDigit>> >>)
DirectiveS == PGroup(<< <<{"6"}, Range(0, 1)>>, <<Range(0, 5), AnyDigit>>, <<AnyDigit>> >>)

\* TimeRE.pattern('%Y-%m-%d %H:%M:%S'): the blank of the format becomes \s+.
FormatRegex ==
    <<DirectiveY, PLit("-"), DirectiveM, PLit("-"), DirectiveD, PBlanks,
      DirectiveH, PLit(":"), DirectiveMin, PLit(":"), DirectiveS>>

NoMatch == [ok |-> FALSE, end |-> 0, groups |-> << >>]

AltMatches(alt, str, i) == \A k \in 1..Len(alt) : At(str, i + k - 1) \in alt[k]

\* The whitespace characters in a row from position i.
RECURSIVE BlankRun(_, _)
BlankRun(str, i) == IF At(str, i) \in Whitespace THEN 1 + BlankRun(str, i + 1) ELSE 0

\* format_regex.match(data_string) from position i: the first match in the
\* order of a backtracking matcher (alternatives left to right, \s+ greedy),
\* with the text of each group.
RECURSIVE Match(_, _, _)
RECURSIVE TryAlts(_, _, _, _, _)
RECURSIVE TryBlanks(_, _, _, _)
Match(p, str, i) ==
    IF p = << >> THEN [ok |-> TRUE, end |-> i, groups |-> << >>]
    ELSE LET e == Head(p) IN
         IF e.kind = "lit"
         THEN IF At(str, i) = e.ch THEN Match(Tail(p), str, i + 1) ELSE NoMatch
         ELSE IF e.kind = "blanks" THEN TryBlanks(Tail(p), str, i, BlankRun(str, i))
         ELSE TryAlts(e.alts, 1, Tail(p), str, i)

TryAlts(alts, k, rest, str, i) ==
    IF k > Len(alts) THEN NoMatch
    ELSE LET r == IF AltMatches(alts[k], str, i)
                  THEN Match(rest, str, i + Len(alts[k]))
                  ELSE NoMatch
         IN  IF r.ok
             THEN [r EXCEPT !.groups = <<SubSeq(str, i, i + Len(alts[k]) - 1)>> \o @]
             ELSE TryAlts(alts, k + 1, rest, str, i)

TryBlanks(rest, str, i, n) ==
    IF n < 1 THEN NoMatch
    ELSE LET r == Match(rest, str, i + n)
         IN  IF r.ok THEN r ELSE TryBlanks(rest, str, i, n - 1)

\* int(text) of a group: the blank before a day is skipped.
RECURSIVE IntOf(_)
IntOf(text) ==
    IF text = << >> THEN 0
    ELSE LET c == text[Len(text)]
             rest == SubSeq(text, 1, Len(text) - 1)
         IN  IF c \in Whitespace THEN IntOf(rest) ELSE IntOf(rest) * 10 + DigitVal(c)

ParseError == [ok |-> FALSE, dt |-> NoCal]

\* datetime.datetime.strptime(datestr, '%Y-%m-%d %H:%M:%S'): the datetime, or
\* a ValueError (ok = FALSE): no match, unconverted data, or a field that
\* datetime refuses (year 0, day past the month's end, second 60 or 61).
Strptime(str) ==
    LET found == Match(FormatRegex, str, 1)
        Y == IntOf(found.groups[1])
        M == IntOf(found.groups[2])
        D == IntOf(found.groups[3])
        h == IntOf(found.groups[4])
        mn == IntOf(found.groups[5])
        s == IntOf(found.groups[6])
    IN  IF /\ found.ok
           /\ found.end = Len(str) + 1
           /\ Y >= 1
           /\ D <= DaysInMonth(Y, M)
           /\ s <= 59
        THEN [ok |-> TRUE, dt |-> Cal(Y, M, D, h, mn, s, 0)]
        ELSE ParseError

\* def str_to_datetime(datestr): the ValueError is printed and raised again.
str_to_datetime(datestr) == Strptime(datestr)

-----------------------------------------------------------------------------
(* class UnixTimestamp(TypeDecorator): impl = Integer *)

\* Values handed to the column.
InNone == [kind |-> "none", chars |-> << >>, dt |-> NoCal]
InStr(str) == [kind |-> "str", chars |-> str, dt |-> NoCal]
InDt(c) == [kind |-> "dt", chars |-> << >>, dt |-> c]
InNum == [kind |-> "num", chars |-> << >>, dt |-> NoCal]

\* Python numbers: an int, or a float of secs + us/1000000.
PyNone == [kind |-> "none", secs |-> 0, us |-> 0]
PyInt(n) == [kind |-> "int", secs |-> n, us |-> 0]
PyFloat(n, us) == [kind |-> "float", secs |-> n, us |-> us]
PyRaised == [kind |-> "raised", secs |-> 0, us |-> 0]
Unset == [kind |-> "unset", secs |-> 0, us |-> 0]

\* int(x) of the float x = secs + us/1000000: towards zero.
Truncate(secs, us) == IF secs < 0 /\ us > 0 THEN secs + 1 ELSE secs

\* def process_bind_param(self, value, _): None; a str through
\* str_to_datetime(value).timestamp(), a float; a datetime through
\* int(datetime.datetime.timestamp(value)); a number is no datetime, the
\* descriptor raises TypeError.
process_bind_param(z, value) ==
    IF value.kind = "none" THEN PyNone
    ELSE IF value.kind = "str"
    THEN LET p == str_to_datetime(value.chars) IN
         IF p.ok THEN PyFloat(LocalToSeconds(z, p.dt), 0) ELSE PyRaised
    ELSE IF value.kind = "num" THEN PyRaised
    ELSE PyInt(Truncate(LocalToSeconds(z, value.dt), value.dt.us))

\* The cell of an INTEGER column of the SQLite store; NoCell before the
\* INSERT, CellRefused when the INSERT raised IntegrityError and left no row.
NoCell == [kind |-> "nocell", secs |-> 0, us |-> 0, chars |-> << >>]
CellRefused == [kind |-> "refused", secs |-> 0, us |-> 0, chars |-> << >>]
CellNull == [kind |-> "null", secs |-> 0, us |-> 0, chars |-> << >>]
CellInt(n) == [kind |-> "int", secs |-> n, us |-> 0, chars |-> << >>]
CellReal(n, us) == [kind |-> "real", secs |-> n, us |-> us, chars |-> << >>]
CellText(str) == [kind |-> "text", secs |-> 0, us |-> 0, chars |-> str]

\* impl = Integer on the sqlite engine: the column has INTEGER affinity, which
\* stores a float without fraction as an integer. lastreleased is
\* Mapped[UnixTimestamp] without Optional, hence NOT NULL: None is refused.
IntegerColumn(v) ==
    IF v.kind = "none" THEN CellRefused
    ELSE IF v.kind = "int" THEN CellInt(v.secs)
    ELSE IF v.us = 0 THEN CellInt(v.secs) ELSE CellReal(v.secs, v.us)

\* Results of process_result_value.
OutUnset == [kind |-> "unset", dt |-> NoCal, secs |-> 0]
OutNone == [kind |-> "none", dt |-> NoCal, secs |-> 0]
OutDt(c) == [kind |-> "dt", dt |-> c, secs |-> 0]
OutFloat(n) == [kind |-> "float", dt |-> NoCal, secs |-> n]
OutRaised == [kind |-> "raised", dt |-> NoCal, secs |-> 0]

\* def process_result_value(self, value, _)
process_result_value(z, value) ==
    IF value.kind = "null" THEN OutNone
    ELSE IF value.kind = "text"
    THEN LET p == str_to_datetime(value.chars) IN
         IF p.ok THEN OutFloat(LocalToSeconds(z, p.dt)) ELSE OutRaised
    ELSE OutDt(FromTimestamp(z, value.secs, value.us))

-----------------------------------------------------------------------------
(* The UnixTimestamp column, one action per step of a write and a read *)

\* The INSERT's parameter goes through process_bind_param.
BindParam ==
    /\ cell = NoCell
    /\ bound = Unset
    /\ bound' = process_bind_param(tz, cin)
    /\ UNCHANGED <<tz, cin, cell, out, fetchVars, pc, loadVars>>

\* The INSERT stores the bound parameter in the column.
StoreCell ==
    /\ bound.kind \in {"none", "int", "float"}
    /\ cell = NoCell
    /\ cell' = IntegerColumn(bound)
    /\ UNCHANGED <<tz, cin, bound, out, fetchVars, pc, loadVars>>

\* A SELECT hands the column's value to process_result_value.
LoadCell ==
    /\ out = OutUnset
    /\ cell.kind \in {"null", "int", "real", "text"}
    /\ out' = process_result_value(tz, cell)
    /\ UNCHANGED <<tz, cin, bound, cell, fetchVars, pc, loadVars>>

-----------------------------------------------------------------------------
(* The raw collections: authors and mods as the API lists them *)

\* None where a string is expected.
NULL == "<null>"

UserIds == {1, 2}
AuthorNames == {"alice", "theysa"}

\* The records of the authors collection: alice under either id, theysa and
\* an author without a name under id 2.
AuthorRecs ==
    {[userid |-> u, name |-> "alice"] : u \in UserIds}
    \cup {[userid |-> 2, name |-> n] : n \in {"theysa", NULL}}

\* The authors collection: up to two records, in any order, names and ids
\* possibly repeated, names possibly null.
AuthorLists ==
    {<< >>} \cup {<<a>> : a \in AuthorRecs} \cup {<<a, b>> : a \in AuthorRecs, b \in AuthorRecs}

AliasLists == {<< >>, <<"x">>}
TagLists == {<<"a">>, <<"a", "b">>}

\* "lastreleased" as the API writes it.
Released == FormatCal(Cal(2023, 5, 1, 12, 0, 0, 0))

\* One record of the mods collection, with the keys the API gives it.
ModRec(id, asset, au, al, tg) ==
    [modid |-> id, assetid |-> asset, author |-> au, name |-> "name", summary |-> "summary",
     urlalias |-> "alias", downloads |-> 0, follows |-> 0, trendingpoints |-> 0,
     comments |-> 0, logo |-> "logo", side |-> "both", type |-> "mod",
     lastreleased |-> InStr(Released), modidstrs |-> al, tags |-> tg]

\* A record without the key k, and with the key k holding v.
Without(d, k) == [x \in DOMAIN d \ {k} |-> d[x]]
With(d, k, v) == [x \in DOMAIN d \cup {k} |-> IF x = k THEN v ELSE d[x]]

\* Records that the API could give and the Mod table does not take, or takes
\* and cannot load again (a side or a type that is no name of the enum).
Defective(d) ==
    {With(d, "lastreleased", InStr(<<"n", "/", "a">>)),
     With(d, "lastreleased", InNone),
     With(d, "lastreleased", InNum),
     With(d, "name", NULL),
     Without(d, "downloads"),
     With(d, "side", "sideways"),
     With(d, "type", "plugin"),
     With(d, "rating", 0),
     Without(d, "comments")}

\* The API gives every mod its own asset id.
AssetOf(id) == 10 * id

\* The records of mod 1: by alice, an alias or none.
FirstMods ==
    {ModRec(1, AssetOf(1), "alice", al, tg) : al \in AliasLists, tg \in TagLists}

\* The records of mod 2: the alias "x", an author with or without a name;
\* records of it that the Mod table does not take; and one with an unknown
\* side, no alias and the tag "b".
SecondMods ==
    {ModRec(2, AssetOf(2), au, <<"x">>, tg) : au \in AuthorNames \cup {NULL}, tg \in TagLists}
    \cup Defective(ModRec(2, AssetOf(2), "alice", <<"x">>, <<"a">>))
    \cup {With(ModRec(2, AssetOf(2), "alice", << >>, <<"b">>), "side", "sideways")}

\* The mods collection: each mod listed once.
ModLists ==
    {<<m>> : m \in FirstMods \cup SecondMods}
    \cup {<<m, n>> : m \in FirstMods, n \in SecondMods}

\* authors_by_name = {a['name']: a for a in authors if a['name'] is not None}
BuildIndex(as) ==
    LET names == {as[i].name : i \in DOMAIN as} \ {NULL}
        last(n) == CHOOSE i \in DOMAIN as :
                       /\ as[i].name = n
                       /\ \A j \in DOMAIN as : as[j].name = n => j <= i
    IN  [n \in names |-> as[last(n)]]

Indexes == {BuildIndex(as) : as \in AuthorLists}

-----------------------------------------------------------------------------
(* The store: the tables of vintage_story_mods.sqlite3, as committed *)

EmptyStore ==
    [author |-> {}, mod |-> {}, modid_str |-> {}, tag |-> {}, mod_tag |-> {}, mod_version |-> {}]

NoAuthor == [id |-> 0, name |-> NULL]
NoMod ==
    [id |-> 0, assetid |-> 0, name |-> "", summary |-> "", author_id |-> 0, urlalias |-> "",
     downloads |-> 0, follows |-> 0, trendingpoints |-> 0, comment_count |-> 0, logo |-> "",
     side |-> "", mod_type |-> "", lastreleased |-> NoCell, nulls |-> {}]

\* An integer primary key left to the store: one more than the largest id.
NextId(rows) ==
    IF rows = {} THEN 1
    ELSE (CHOOSE n \in {r.id : r \in rows} : \A r \in rows : r.id <= n) + 1

\* session.query(Author).filter(Author.id == userid)
FindAuthor(st, userid) == {r \in st.author : r.id = userid}

\* Mutant: the lookup filters on a column that never matches.
FindMod_Never(st, modid) == {}

\* session.query(Mod).filter(Mod.id == modid)
FindMod(st, modid) == {r \in st.mod : r.id = modid}

\* session.query(ModIdStr).filter(ModIdStr.modid_str == mod_str)
FindModIdStr(st, str) == {r \in st.modid_str : r.modid_str = str}

\* session.query(Tag).filter(Tag.tag == tag_str)
FindTag(st, str) == {r \in st.tag : r.tag = str}

\* Mutant: the new author never reaches the store.
InsertAuthor_Lost(st, row) == [ok |-> TRUE, store |-> st]

\* INSERT INTO author: id is the primary key.
InsertAuthor(st, row) ==
    IF \E r \in st.author : r.id = row.id
    THEN [ok |-> FALSE, store |-> st]
    ELSE [ok |-> TRUE, store |-> [st EXCEPT !.author = @ \cup {row}]]

\* The columns of mod declared Mapped[...] without Optional: NOT NULL.
ModNotNull ==
    {"id", "assetid", "name", "author_id", "downloads", "follows", "trendingpoints",
     "comment_count", "side", "mod_type", "lastreleased"}

ModColumns == ModNotNull \cup {"summary", "urlalias", "logo"}

\* INSERT INTO mod: the NOT NULL columns hold a value (row.nulls names the
\* columns that are NULL), id is the primary key, assetid is unique.
InsertMod(st, row) ==
    IF \/ row.nulls \cap ModNotNull # {}
       \/ \E r \in st.mod : r.id = row.id \/ r.assetid = row.assetid
    THEN [ok |-> FALSE, store |-> st]
    ELSE [ok |-> TRUE, store |-> [st EXCEPT !.mod = @ \cup {row}]]

\* INSERT INTO modid_str: modid_str is the primary key.
InsertModIdStr(st, row) ==
    IF \E r \in st.modid_str : r.modid_str = row.modid_str
    THEN [ok |-> FALSE, store |-> st]
    ELSE [ok |-> TRUE, store |-> [st EXCEPT !.modid_str = @ \cup {row}]]

\* INSERT INTO tag: id is the primary key (left to the store), tag is unique.
InsertTag(st, str) ==
    IF \E r \in st.tag : r.tag = str
    THEN [ok |-> FALSE, store |-> st, row |-> [id |-> 0, tag |-> str]]
    ELSE LET row == [id |-> NextId(st.tag), tag |-> str]
         IN  [ok |-> TRUE, store |-> [st EXCEPT !.tag = @ \cup {row}], row |-> row]

-----------------------------------------------------------------------------
(* The load loop of main (lines 194-236) as a step function on the state     *)
(*   [pc, mi, ai, ti, author, mod, store, pending, exc]                      *)
(* mi, ai, ti: the positions of the three for loops; author, mod: the        *)
(* locals; pending: the mod_tag rows the session holds (appended to          *)
(* mod.tags, flushed by the next query) and has not committed.               *)

StartRun(st) ==
    [pc |-> "for_mod", mi |-> 1, ai |-> 1, ti |-> 1, author |-> NoAuthor, mod |-> NoMod,
     store |-> st, pending |-> {}, exc |-> ""]

\* session.commit(): what the session holds goes to the store.
Commit(L) == [L EXCEPT !.store.mod_tag = @ \cup L.pending, !.pending = {}]

\* An unhandled exception: the process ends, the open transaction is lost.
Abort(L, e) == [L EXCEPT !.pc = "raised", !.exc = e, !.pending = {}]

\* The process is killed: the open transaction and the locals are lost.
Kill(L) == [StartRun(L.store) EXCEPT !.pc = "killed"]

\* Where the body of the mod loop goes on after the alias at position ai - 1
\* and the tag at position ti - 1.
Onward(d, a, t) ==
    IF a <= Len(d.modidstrs) THEN "alias"
    ELSE IF t <= Len(d.tags) THEN "tag"
    ELSE "end_mod"

\* for mod_dict in mods: mod_id_strs = pop('modidstrs'); tag_strs = pop('tags')
ForMod(L, ms) ==
    IF L.mi > Len(ms) THEN [L EXCEPT !.pc = "close"]
    ELSE [L EXCEPT !.pc = "author", !.ai = 1, !.ti = 1]

\* Mutant: a name missing from the index falls back to the first author stored.
LookupAuthor_Fallback(idx, name) ==
    IF name \in DOMAIN idx THEN [ok |-> TRUE, dict |-> idx[name]]
    ELSE [ok |-> TRUE, dict |-> [userid |-> 1, name |-> name]]

\* authors_by_name[mod_dict.pop('author')]
LookupAuthor(idx, name) ==
    IF name \in DOMAIN idx THEN [ok |-> TRUE, dict |-> idx[name]]
    ELSE [ok |-> FALSE, dict |-> [userid |-> 0, name |-> NULL]]

\* author_dict = authors_by_name[...]; author = query; if author is None:
\* author = Author(id=userid, name=...); session.add(author); session.commit()
AuthorUpsert(L, ms, idx) ==
    LET hit == LookupAuthor(idx, ms[L.mi].author)
        found == FindAuthor(L.store, hit.dict.userid)
        row == [id |-> hit.dict.userid, name |-> hit.dict.name]
        ins == InsertAuthor(L.store, row)
    IN  IF ~hit.ok THEN Abort(L, "KeyError")
        ELSE IF found # {}
        THEN [L EXCEPT !.pc = "mod", !.author = CHOOSE r \in found : TRUE]
        ELSE IF ~ins.ok THEN Abort(L, "IntegrityError")
        ELSE Commit([L EXCEPT !.pc = "mod", !.author = row, !.store = ins.store])

\* class InstallSide, class ModType: the names an Enum column takes.
InstallSide == {"server", "client", "both"}
ModType == {"mod", "externaltool", "other"}

\* The attributes of class Mod: what Mod(**kwargs) accepts.
ModAttributes ==
    {"id", "assetid", "name", "summary", "author_id", "author", "urlalias", "downloads",
     "follows", "trendingpoints", "comment_count", "logo", "side", "mod_type", "lastreleased",
     "modid_strs", "tags", "versions"}

\* The keyword arguments of Mod(id=modid, author=author, **mod_dict) that come
\* from mod_dict, after the pops and the renames comments -> comment_count
\* and type -> mod_type.
ModKwargs(d) ==
    (DOMAIN d \ {"modidstrs", "tags", "author", "modid", "comments", "type"})
    \cup {"comment_count", "mod_type"}

\* The key of mod_dict that a column of mod is filled from.
KeyOf(col) ==
    IF col = "id" THEN "modid"
    ELSE IF col = "comment_count" THEN "comments"
    ELSE IF col = "mod_type" THEN "type"
    ELSE col

\* The column is None: the key is absent, or holds null. (A null of a numeric
\* field is written as an absent key.)
IsNone(d, col) ==
    LET k == KeyOf(col) IN
    IF k \notin DOMAIN d THEN TRUE
    ELSE IF col \in {"name", "summary", "urlalias", "logo", "side", "mod_type"} THEN d[k] = NULL
    ELSE IF col = "lastreleased" THEN d[k].kind = "none"
    ELSE FALSE

\* The value of a column, where it is not None.
Value(d, col, none) == IF IsNone(d, col) THEN none ELSE d[KeyOf(col)]

\* The bind processors of the INSERT: lastreleased goes through
\* process_bind_param. Enum(InstallSide) and Enum(ModType) do not validate
\* strings: a string that is no name of the class is bound as it is, and the
\* column has no CHECK constraint.
BindFails(d, z) ==
    ~IsNone(d, "lastreleased") /\ process_bind_param(z, d.lastreleased).kind = "raised"

\* The row of Mod(id=modid, author=author, **mod_dict) as the INSERT binds it.
NewMod(d, au, z) ==
    [id |-> d.modid, assetid |-> Value(d, "assetid", 0), name |-> Value(d, "name", ""),
     summary |-> Value(d, "summary", ""), author_id |-> au.id,
     urlalias |-> Value(d, "urlalias", ""), downloads |-> Value(d, "downloads", 0),
     follows |-> Value(d, "follows", 0), trendingpoints |-> Value(d, "trendingpoints", 0),
     comment_count |-> Value(d, "comment_count", 0), logo |-> Value(d, "logo", ""),
     side |-> Value(d, "side", ""), mod_type |-> Value(d, "mod_type", ""),
     lastreleased |-> IF IsNone(d, "lastreleased") THEN CellNull
                      ELSE IntegerColumn(process_bind_param(z, d.lastreleased)),
     nulls |-> {c \in ModColumns \ {"id", "author_id"} : IsNone(d, c)}]

\* Loading a Mod row runs the result processors of its columns in the order
\* of the columns: the Enum columns look the stored string up among the names
\* of their class (LookupError), lastreleased goes through
\* process_result_value (ValueError). "" when the row loads.
LoadError(row, z) ==
    IF row.side \notin InstallSide \/ row.mod_type \notin ModType THEN "LookupError"
    ELSE IF process_result_value(z, row.lastreleased).kind = "raised" THEN "ValueError"
    ELSE ""

\* A use of mod after a commit loads the expired row again.
Reload(L, z) == LoadError(L.mod, z)

\* The exception e, if there is one, ends the run; without one the run goes
\* on as next.
OrRaise(L, e, next) == IF e # "" THEN Abort(L, e) ELSE next

\* Mutant: a mod found in the store is updated with the fresh field values.
ModUpsert_Merge(L, ms, z) ==
    LET d == ms[L.mi]
        found == FindMod(L.store, d.modid)
        row == NewMod(d, L.author, z)
        ins == InsertMod(L.store, row)
    IN  IF found # {}
        THEN Commit([L EXCEPT !.pc = Onward(d, 1, 1), !.mod = row,
                              !.store.mod = (@ \ found) \cup {row}])
        ELSE IF ~ins.ok THEN Abort(L, "IntegrityError")
        ELSE Commit([L EXCEPT !.pc = Onward(d, 1, 1), !.mod = row, !.store = ins.store])

\* modid = mod_dict.pop('modid'); mod = query (the row found is loaded); if
\* mod is None: the two renames, mod = Mod(...) (TypeError on a keyword that
\* is no attribute); session.add(mod); session.commit() (StatementError when
\* a value cannot be bound, IntegrityError when the INSERT is refused). The
\* commit expires mod: the row is loaded again where mod is next used.
ModUpsert(L, ms, z) ==
    LET d == ms[L.mi]
        found == FindMod(L.store, d.modid)
        row == NewMod(d, L.author, z)
        ins == InsertMod(L.store, row)
    IN  IF "modid" \notin DOMAIN d THEN Abort(L, "KeyError")
        ELSE IF found # {}
        THEN LET r == CHOOSE x \in found : TRUE
             IN  OrRaise(L, LoadError(r, z), [L EXCEPT !.pc = Onward(d, 1, 1), !.mod = r])
        ELSE IF "comments" \notin DOMAIN d \/ "type" \notin DOMAIN d THEN Abort(L, "KeyError")
        ELSE IF ~(ModKwargs(d) \subseteq ModAttributes) \/ ModKwargs(d) \cap {"id", "author"} # {}
        THEN Abort(L, "TypeError")
        ELSE IF BindFails(d, z) THEN Abort(L, "StatementError")
        ELSE IF ~ins.ok THEN Abort(L, "IntegrityError")
        ELSE Commit([L EXCEPT !.pc = Onward(d, 1, 1), !.mod = row, !.store = ins.store])

\* for mod_str in mod_id_strs: mod_id_str = query; if mod_id_str is None:
\* mod_id_str = ModIdStr(modid_str=mod_str, mod=mod); add; commit (the flush
\* takes mod.id for the new row's mod_id, which loads mod)
AliasUpsert(L, ms, z) ==
    LET d == ms[L.mi]
        str == d.modidstrs[L.ai]
        found == FindModIdStr(L.store, str)
        ins == InsertModIdStr(L.store, [modid_str |-> str, mod_id |-> L.mod.id])
        on == [L EXCEPT !.pc = Onward(d, L.ai + 1, 1), !.ai = L.ai + 1]
    IN  IF found # {} THEN on
        ELSE OrRaise(L, Reload(L, z),
                     IF ~ins.ok THEN Abort(L, "IntegrityError")
                     ELSE Commit([on EXCEPT !.store = ins.store]))

\* mod.tags.append(tag): mod.tags loads mod and its tags; the session will
\* insert a mod_tag row for a tag the mod does not have. Appending a tag the
\* mod already has is left to the ORM: nothing (again = FALSE; Mod.tags has no
\* new member), or one more mod_tag row (again = TRUE; the append queued on the
\* unloaded Tag.mods is flushed, and the table has no unique constraint on the
\* pair).
AttachTag(L, tag_id, z, again) ==
    LET has == \E r \in L.store.mod_tag \cup L.pending :
                   r.mod_id = L.mod.id /\ r.tag_id = tag_id
        row == [id |-> NextId(L.store.mod_tag \cup L.pending),
                mod_id |-> L.mod.id, tag_id |-> tag_id]
    IN  OrRaise(L, Reload(L, z),
                IF ~has \/ again THEN [L EXCEPT !.pending = @ \cup {row}] ELSE L)

\* Whether the mod of the running iteration already has the tag at position ti.
Reattaches(L, ms) ==
    LET found == FindTag(L.store, ms[L.mi].tags[L.ti])
    IN  \E t \in found : \E r \in L.store.mod_tag \cup L.pending :
            r.mod_id = L.mod.id /\ r.tag_id = t.id

\* Mutant: mod.tags.append(tag) sits inside the if, so that a tag found in the
\* store is not attached.
TagUpsert_AppendInIf(L, ms, z, again) ==
    LET d == ms[L.mi]
        str == d.tags[L.ti]
        found == FindTag(L.store, str)
        ins == InsertTag(L.store, str)
        on == [L EXCEPT !.pc = Onward(d, Len(d.modidstrs) + 1, L.ti + 1), !.ti = L.ti + 1]
    IN  IF found # {} THEN on
        ELSE IF ~ins.ok THEN Abort(L, "IntegrityError")
        ELSE AttachTag(Commit([on EXCEPT !.store = ins.store]), ins.row.id, z, again)

\* for tag_str in tag_strs: tag = query; if tag is None: tag = Tag(tag=tag_str);
\* add; commit;  mod.tags.append(tag)
TagUpsert(L, ms, z, again) ==
    LET d == ms[L.mi]
        str == d.tags[L.ti]
        found == FindTag(L.store, str)
        ins == InsertTag(L.store, str)
        on == [L EXCEPT !.pc = Onward(d, Len(d.modidstrs) + 1, L.ti + 1), !.ti = L.ti + 1]
        tag == IF found # {} THEN CHOOSE r \in found : TRUE ELSE ins.row
        held == IF found # {} THEN on ELSE Commit([on EXCEPT !.store = ins.store])
    IN  IF found = {} /\ ~ins.ok THEN Abort(L, "IntegrityError")
        ELSE AttachTag(held, tag.id, z, again)

\* session.commit() at the end of the mod loop's body
EndMod(L) == Commit([L EXCEPT !.pc = "for_mod", !.mi = L.mi + 1])

\* session.close()
CloseSession(L) == [L EXCEPT !.pc = "closed", !.pending = {}]

Running == {"for_mod", "author", "mod", "alias", "tag", "end_mod", "close"}

LoadStep(L, ms, idx, z, again) ==
    CASE L.pc = "for_mod" -> ForMod(L, ms)
      [] L.pc = "author" -> AuthorUpsert(L, ms, idx)
      [] L.pc = "mod" -> ModUpsert(L, ms, z)
      [] L.pc = "alias" -> AliasUpsert(L, ms, z)
      [] L.pc = "tag" -> TagUpsert(L, ms, z, again)
      [] L.pc = "end_mod" -> EndMod(L)
      [] L.pc = "close" -> CloseSession(L)
      [] OTHER -> L

\* One run of the loop that nothing interrupts, from a store, under an ORM
\* that does (again = TRUE) or does not (again = FALSE) write a mod_tag row
\* for a tag appended to a mod that has it.
RECURSIVE RunToEnd(_, _, _, _, _)
RunToEnd(L, ms, idx, z, again) ==
    IF L.pc \in Running
    THEN RunToEnd(LoadStep(L, ms, idx, z, again), ms, idx, z, again)
    ELSE L

Uninterrupted(st, ms, idx, z, again) == RunToEnd(StartRun(st), ms, idx, z, again)

-----------------------------------------------------------------------------
(* The load loop, one action per step *)

LoadState ==
    [pc |-> pc, mi |-> mi, ai |-> ai, ti |-> ti, author |-> author, mod |-> mod,
     store |-> store, pending |-> pending, exc |-> exc]

Becomes(L) ==
    /\ pc' = L.pc
    /\ mi' = L.mi
    /\ ai' = L.ai
    /\ ti' = L.ti
    /\ author' = L.author
    /\ mod' = L.mod
    /\ store' = L.store
    /\ pending' = L.pending
    /\ exc' = L.exc

\* line 194-196
LoopHead ==
    /\ pc = "for_mod"
    /\ Becomes(ForMod(LoadState, mods))
    /\ iterStore' = store
    /\ UNCHANGED <<mods, authors_by_name, runs, store0, prev, killed, fetchVars, codecVars>>

\* lines 198-204
AuthorStep ==
    /\ pc = "author"
    /\ Becomes(AuthorUpsert(LoadState, mods, authors_by_name))
    /\ UNCHANGED <<mods, authors_by_name, histVars, fetchVars, codecVars>>

\* lines 206-214
ModStep ==
    /\ pc = "mod"
    /\ Becomes(ModUpsert(LoadState, mods, tz))
    /\ UNCHANGED <<mods, authors_by_name, histVars, fetchVars, codecVars>>

\* lines 216-221, one alias
AliasStep ==
    /\ pc = "alias"
    /\ Becomes(AliasUpsert(LoadState, mods, tz))
    /\ UNCHANGED <<mods, authors_by_name, histVars, fetchVars, codecVars>>

\* lines 223-229, one tag
TagStep ==
    /\ pc = "tag"
    /\ \E again \in (IF Reattaches(LoadState, mods) THEN BOOLEAN ELSE {FALSE}) :
           Becomes(TagUpsert(LoadState, mods, tz, again))
    /\ UNCHANGED <<mods, authors_by_name, histVars, fetchVars, codecVars>>

\* line 230
CommitMod ==
    /\ pc = "end_mod"
    /\ Becomes(EndMod(LoadState))
    /\ UNCHANGED <<mods, authors_by_name, histVars, fetchVars, codecVars>>

\* line 236
Close ==
    /\ pc = "close"
    /\ Becomes(CloseSession(LoadState))
    /\ UNCHANGED <<mods, authors_by_name, histVars, fetchVars, codecVars>>

\* The process is killed between two steps.
Interrupt ==
    /\ pc \in Running
    /\ Becomes(Kill(LoadState))
    /\ killed' = TRUE
    /\ UNCHANGED <<mods, authors_by_name, runs, store0, prev, iterStore, fetchVars, codecVars>>

\* The loop is run again on the same collections and the same store file.
Rerun ==
    /\ pc \in {"closed", "raised", "killed"}
    /\ runs < MaxRuns
    /\ Becomes(StartRun(store))
    /\ runs' = runs + 1
    /\ prev' = [status |-> pc, store |-> store]
    /\ iterStore' = store
    /\ UNCHANGED <<mods, authors_by_name, store0, killed, fetchVars, codecVars>>

-----------------------------------------------------------------------------
(* main as written (lines 169-191), one action per statement *)

\* mods = download_load_data(.../api/mods, mods_file, 'mods'): the call
MainStart ==
    /\ pc = "start"
    /\ EnterCall(ModsUrl, mods_file, "mods")
    /\ pc' = "fetch_mods"
    /\ UNCHANGED <<fs, web, nGet, nWrite, codecVars, loadVars>>

\* mods = ...; authors = download_load_data(.../api/authors, authors_file, 'authors')
GotMods ==
    /\ pc = "fetch_mods"
    /\ call.pc = "returned"
    /\ mods' = ret.val
    /\ EnterCall(AuthorsUrl, authors_file, "authors")
    /\ pc' = "fetch_authors"
    /\ UNCHANGED <<fs, web, nGet, nWrite, codecVars, authors_by_name, progVars, histVars>>

\* authors = ...; authors_by_name = {...}
GotAuthors ==
    /\ pc = "fetch_authors"
    /\ call.pc = "returned"
    /\ authors_by_name' = BuildIndex(ret.val)
    /\ pc' = "engine"
    /\ UNCHANGED <<fetchVars, codecVars, mods, progVars, histVars>>

\* engine = create_engine(...); Base.metadata.create_all(engine);
\* Session = sessionmaker(engine); session = Session()
OpenSession ==
    /\ pc = "engine"
    /\ pc' = "query"
    /\ UNCHANGED <<fetchVars, codecVars, loadVars>>

\* author = session.query(Author).filter(Author.name == 'theysa').one_or_none()
QueryAuthor ==
    /\ pc = "query"
    /\ LET found == {r \in store.author : r.name = "theysa"} IN
       IF Cardinality(found) > 1
       THEN /\ pc' = "raised"
            /\ exc' = "MultipleResultsFound"
            /\ UNCHANGED author
       ELSE /\ pc' = "print"
            /\ author' = IF found = {} THEN NoAuthor ELSE CHOOSE r \in found : TRUE
            /\ UNCHANGED exc
    /\ UNCHANGED <<fetchVars, codecVars, mods, authors_by_name, mi, ai, ti, mod, store, pending, histVars>>

\* for mod in author.mods: print ...; print(author): None has no mods; the
\* author's Mod rows are loaded through the result processors of the columns,
\* in the order of the table (its integer primary key).
PrintAuthor ==
    /\ pc = "print"
    /\ IF author = NoAuthor
       THEN pc' = "raised" /\ exc' = "AttributeError"
       ELSE LET loaded == {<<r.id, LoadError(r, tz)>> : r \in {x \in store.mod : x.author_id = author.id}}
                bad == {p \in loaded : p[2] # ""}
                first == CHOOSE p \in bad : \A q \in bad : p[1] <= q[1]
            IN  IF bad # {}
                THEN pc' = "raised" /\ exc' = first[2]
                ELSE pc' = "exit" /\ UNCHANGED exc
    /\ UNCHANGED <<fetchVars, codecVars, mods, authors_by_name, mi, ai, ti, author, mod, store, pending, histVars>>

\* Mutant: no exit(): main goes on to the load loop.
AfterExit_FallThrough == "for_mod"

\* Where exit() leaves main.
AfterExit == "exited"

\* exit()
ExitMain ==
    /\ pc = "exit"
    /\ pc' = AfterExit
    /\ exc' = "SystemExit"
    /\ UNCHANGED <<fetchVars, codecVars, mods, authors_by_name, mi, ai, ti, author, mod, store, pending, histVars>>

-----------------------------------------------------------------------------
(* States in which a part of the program is not running *)

FetchIdle ==
    /\ fs = [p \in Paths |-> NoFile]
    /\ web = [u \in Urls |-> [kind |-> "neterr", keys |-> {}, val |-> << >>]]
    /\ nGet = 0
    /\ nWrite = 0
    /\ call = IdleCall
    /\ ret = NoRet
    /\ hist = [fs |-> fs, nGet |-> 0, nWrite |-> 0]
    /\ nCalls = 0

CodecIdle ==
    /\ tz = UTC
    /\ cin = InNone
    /\ bound = Unset
    /\ cell = NoCell
    /\ out = OutUnset

NoHistory ==
    /\ runs = 0
    /\ store0 = store
    /\ prev = [status |-> "none", store |-> store]
    /\ iterStore = store
    /\ killed = FALSE

NoSession(st) ==
    /\ mi = 1
    /\ ai = 1
    /\ ti = 1
    /\ author = NoAuthor
    /\ mod = NoMod
    /\ store = st
    /\ pending = {}
    /\ exc = ""

LoadIdle ==
    /\ mods = << >>
    /\ authors_by_name = BuildIndex(<< >>)
    /\ NoSession(EmptyStore)
    /\ NoHistory

-----------------------------------------------------------------------------
(* What earlier runs of the loop left in the store file *)

Input(as, ms) == [authors |-> as, mods |-> ms]

Ann == [userid |-> 1, name |-> "alice"]
The == [userid |-> 2, name |-> "theysa"]

\* Runs of the loop, one after the other, that an earlier day saw.
Seeds ==
    {<< >>,
     <<Input(<<Ann>>, <<ModRec(1, 10, "alice", <<"x">>, <<"a">>)>>)>>,
     <<Input(<<[userid |-> 1, name |-> "theysa"]>>,
             <<ModRec(2, 10, "theysa", <<"x">>, <<"b">>)>>)>>}

\* The same, for main: the last one leaves two authors named theysa.
MainSeeds ==
    {<< >>,
     <<Input(<<Ann>>, <<ModRec(1, 10, "alice", <<"x">>, <<"a">>)>>)>>,
     <<Input(<<Ann, The>>, <<ModRec(1, 10, "alice", <<"x">>, <<"a", "b">>),
                             ModRec(2, 20, "theysa", << >>, <<"a">>)>>)>>,
     <<Input(<<[userid |-> 1, name |-> "theysa"]>>, <<ModRec(1, 20, "theysa", << >>, <<"b">>)>>),
       Input(<<The>>, <<ModRec(2, 10, "theysa", <<"x">>, <<"b", "a">>)>>)>>}

RECURSIVE AfterRuns(_, _, _)
AfterRuns(st, seed, again) ==
    IF seed = << >> THEN st
    ELSE AfterRuns(Uninterrupted(st, Head(seed).mods, BuildIndex(Head(seed).authors),
                                 UTC, again).store,
                   Tail(seed), again)

\* A store whose lastreleased cells hold text that this program did not write.
Legacy(st) ==
    [st EXCEPT !.mod = {[r EXCEPT !.lastreleased = CellText(<<"n", "/", "a">>)] : r \in @}]

\* A store whose mod rows hold a side that is no name of InstallSide.
Foreign(st) ==
    [st EXCEPT !.mod = {[r EXCEPT !.side = "sideways"] : r \in @}]

SeedStores ==
    {AfterRuns(EmptyStore, seed, again) : seed \in Seeds, again \in BOOLEAN}
    \cup {Legacy(AfterRuns(EmptyStore,
              <<Input(<<Ann>>, <<ModRec(1, 10, "alice", <<"x">>, <<"a">>)>>)>>, again))
          : again \in BOOLEAN}
MainStores ==
    {AfterRuns(EmptyStore, seed, again) : seed \in MainSeeds, again \in BOOLEAN}
    \cup {Legacy(AfterRuns(EmptyStore,
              <<Input(<<Ann, The>>, <<ModRec(1, 10, "alice", <<"x">>, <<"a", "b">>),
                                      ModRec(2, 20, "theysa", << >>, <<"a">>)>>)>>, again))
          : again \in BOOLEAN}
    \cup {Foreign(AfterRuns(EmptyStore,
              <<Input(<<The>>, <<ModRec(2, 20, "theysa", << >>, <<"a">>)>>)>>, again))
          : again \in BOOLEAN}

-----------------------------------------------------------------------------
(* FetchSpec: download_load_data called with any URL, path and key *)

FetchInit ==
    /\ fs \in [Paths -> FileStates(FetchArrays)]
    /\ web \in [Urls -> Responses(FetchArrays)]
    /\ nGet = 0
    /\ nWrite = 0
    /\ call = IdleCall
    /\ ret = NoRet
    /\ hist = [fs |-> fs, nGet |-> 0, nWrite |-> 0]
    /\ nCalls = 0
    /\ pc = "harness"
    /\ CodecIdle
    /\ LoadIdle

BeginCall ==
    /\ pc = "harness"
    /\ CallEnded
    /\ nCalls < MaxCalls
    /\ \E url \in Urls, path \in Paths, key \in Keys : EnterCall(url, path, key)
    /\ UNCHANGED <<fs, web, nGet, nWrite, pc, codecVars, loadVars>>

FetchNext == BeginCall \/ CheckExists \/ HttpGet \/ RespJson \/ ExtractKey \/ WriteCache \/ ReadCache

FetchSpec == FetchInit /\ [][FetchNext]_vars

-----------------------------------------------------------------------------
(* CodecSpec: a value is bound, stored and read back *)

CodecYears == {2023}
CodecMonths == {3, 5, 11}
CodecDays == {1, 5, 12}
CodecHours == {1, 2, 3, 12}
CodecMinutes == {0, 30}
CodecSeconds == {0, 59}
CodecMicros == {0, 500000}

CodecCals(micros) ==
    {Cal(Y, M, D, h, m, s, us) : Y \in CodecYears, M \in CodecMonths, D \in CodecDays,
                                 h \in CodecHours, m \in CodecMinutes, s \in CodecSeconds,
                                 us \in micros}

\* Strings that strptime refuses, or accepts in an unusual shape.
OddStrings ==
    {<< >>,
     <<"2", "0", "2", "3", "-", "0", "5", "-", "0", "1">>,
     <<"2", "0", "2", "3", "-", "0", "5", "-", "0", "1", "T", "1", "2", ":", "0", "0", ":", "0", "0">>,
     <<"2", "0", "2", "3", "-", "0", "2", "-", "3", "0", " ", "1", "2", ":", "0", "0", ":", "0", "0">>,
     <<"2", "0", "2", "3", "-", "1", "3", "-", "0", "1", " ", "1", "2", ":", "0", "0", ":", "0", "0">>,
     <<"2", "0", "2", "3", "-", "0", "5", "-", "0", "1", " ", "1", "2", ":", "0", "0", ":", "6", "0">>,
     <<"2", "0", "2", "3", "-", "0", "5", "-", "0", "1", " ", " ", "1", "2", ":", "0", "0", ":", "0", "0">>,
     <<"2", "0", "2", "3", "-", "0", "5", "-", "0", "1", " ", "1", "2", ":", "0", "0", ":", "0", "0", "Z">>,
     <<"2", "0", "2", "3", "-", "0", "5", "-", "0", "1", "\t", "1", "2", ":", "0", "0", ":", "0", "0">>,
     <<"2", "0", "2", "3", "-", "0", "5", "-", "0", "1", "\n", "U+00A0", "1", "2", ":", "0", "0", ":", "0", "0">>,
     <<"2", "0", "2", "3", "-", "0", "5", "-", " ", "1", " ", "1", "2", ":", "0", "0", ":", "0", "0">>,
     <<"2", "0", "2", "3", "-", "0", "5", "-", " ", "0", " ", "1", "2", ":", "0", "0", ":", "0", "0">>,
     <<"2", "0", "2", "3", "-", "0", "5", "-", "0", "1", " ", "1", "2", ":", "0", "0", ":", "0", "U+0663">>,
     <<"U+0662", "U+0660", "U+0662", "U+0663", "-", "0", "5", "-", "1", "U+0662", " ",
       "1", "U+0662", ":", "3", "0", ":", "U+0665">>,
     <<"2", "0", "2", "3", "-", "0", "U+0665", "-", "0", "1", " ", "1", "2", ":", "0", "0", ":", "0", "0">>,
     <<"2", "0", "2", "3", "-", "0", "5", "-", "0", "1", " ", "2", "U+0663", ":", "0", "0", ":", "0", "0">>,
     <<"0", "0", "0", "0", "-", "0", "5", "-", "0", "1", " ", "1", "2", ":", "0", "0", ":", "0", "0">>}

\* Datetimes before the epoch, with and without a fraction of a second.
EarlyCals ==
    {Cal(1969, 12, 31, h, 59, 59, us) : h \in {12, 23}, us \in CodecMicros}

CodecInputs ==
    {InNone}
    \cup {InStr(FormatCal(c)) : c \in CodecCals({0})}
    \cup {InStr(FormatCalBare(c)) : c \in CodecCals({0})}
    \cup {InStr(str) : str \in OddStrings}
    \cup {InDt(c) : c \in CodecCals(CodecMicros) \cup EarlyCals}
    \cup {InNum}

\* Cells that this codec did not write: text, and NULL in a table that was
\* created without the NOT NULL.
LegacyCells ==
    {CellText(FormatCal(c)) : c \in CodecCals({0})}
    \cup {CellText(str) : str \in OddStrings}
    \cup {CellText(<<"n", "/", "a">>), CellNull}

CodecInit ==
    /\ tz \in Zones
    /\ \/ cin \in CodecInputs /\ cell = NoCell
       \/ cin = InNone /\ cell \in LegacyCells
    /\ bound = Unset
    /\ out = OutUnset
    /\ FetchIdle
    /\ pc = "harness"
    /\ LoadIdle

CodecNext == BindParam \/ StoreCell \/ LoadCell

CodecSpec == CodecInit /\ [][CodecNext]_vars

-----------------------------------------------------------------------------
(* LoadSpec: the load loop run on a store file, interrupted, run again *)

LoadInit ==
    /\ mods \in ModLists
    /\ authors_by_name \in Indexes
    /\ \E st \in SeedStores : NoSession(st)
    /\ pc = "for_mod"
    /\ runs = 1
    /\ store0 = store
    /\ prev = [status |-> "none", store |-> store]
    /\ iterStore = store
    /\ killed = FALSE
    /\ FetchIdle
    /\ CodecIdle

LoadNext ==
    \/ LoopHead \/ AuthorStep \/ ModStep \/ AliasStep \/ TagStep \/ CommitMod \/ Close
    \/ Interrupt \/ Rerun

LoadSpec == LoadInit /\ [][LoadNext]_vars

-----------------------------------------------------------------------------
(* Spec: main as written *)

MainModLists ==
    {<<ModRec(1, 10, "alice", <<"x">>, <<"a">>)>>,
     <<ModRec(1, 10, "theysa", << >>, <<"a", "b">>), ModRec(3, 30, "ghost", <<"x">>, <<"b">>)>>}
MainAuthorLists == {<<Ann, The>>, <<[userid |-> 1, name |-> NULL]>>}

MainResponses(arrays) ==
    {[kind |-> "neterr", keys |-> {}, val |-> << >>],
     [kind |-> "text", keys |-> {}, val |-> << >>]}
    \cup {[kind |-> "json", keys |-> ks, val |-> a] : ks \in {{"X"}, {"mods", "authors"}}, a \in arrays}

Init ==
    /\ \E fm \in FileStates(MainModLists), fa \in FileStates(MainAuthorLists) :
           fs = [p \in Paths |-> IF p = mods_file THEN fm ELSE fa]
    /\ \E wm \in MainResponses(MainModLists), wa \in MainResponses(MainAuthorLists) :
           web = [u \in Urls |-> IF u = ModsUrl THEN wm ELSE wa]
    /\ nGet = 0
    /\ nWrite = 0
    /\ call = IdleCall
    /\ ret = NoRet
    /\ hist = [fs |-> fs, nGet |-> 0, nWrite |-> 0]
    /\ nCalls = 0
    /\ pc = "start"
    /\ CodecIdle
    /\ mods = << >>
    /\ authors_by_name = BuildIndex(<< >>)
    /\ \E st \in MainStores : NoSession(st)
    /\ NoHistory

Next ==
    \/ MainStart \/ CheckExists \/ HttpGet \/ RespJson \/ ExtractKey \/ WriteCache \/ ReadCache
    \/ GotMods \/ GotAuthors \/ OpenSession \/ QueryAuthor \/ PrintAuthor \/ ExitMain

Spec == Init /\ [][Next]_vars

-----------------------------------------------------------------------------
(* The claims about download_load_data *)

\* C1: when the cache file exists at the call's path, whatever the URL and the
\* key, the call issues no HTTP request, writes no file, and ends with exactly
\* what parsing that file gives.
C1_CacheHitReadsFileOnly ==
    (call.pc # "idle" /\ hist.fs[call.path].exists) =>
        /\ nGet = hist.nGet
        /\ nWrite = hist.nWrite
        /\ fs = hist.fs
        /\ call.pc \notin {"get", "json", "key", "write"}
        /\ (call.pc \in {"returned", "raised"} => ret = JsonLoads(hist.fs[call.path]))

\* A call with key "X" on a cached ["a","b"] returned it although the URL is
\* unreachable.
C1_Witness ==
    /\ call.pc = "returned"
    /\ call.key = "X"
    /\ hist.fs[call.path] = JsonDump(<<"a", "b">>)
    /\ web[call.url].kind = "neterr"
    /\ ret = Returned(<<"a", "b">>)

\* C4: with no cache file present, a fetch that fails (network error, body that
\* is not JSON, key missing) raises and leaves the files as they were; a cache
\* file that appears during a call holds the array extracted from a decoded
\* response.
C4_FailedFetchLeavesNoCache ==
    LET miss == call.pc # "idle" /\ ~hist.fs[call.path].exists
        bad == web[call.url].kind # "json" \/ call.key \notin web[call.url].keys
    IN  /\ (miss /\ bad) =>
            /\ fs = hist.fs
            /\ nWrite = hist.nWrite
            /\ call.pc \notin {"write", "read", "returned"}
            /\ (call.pc = "raised" =>
                    /\ ret.status = "raised"
                    /\ ret.err = (IF web[call.url].kind = "neterr" THEN "ConnectionError"
                                  ELSE IF web[call.url].kind = "text" THEN "JSONDecodeError"
                                  ELSE "KeyError"))
        /\ (miss /\ fs[call.path].exists) =>
            /\ ~bad
            /\ fs[call.path] = JsonDump(web[call.url].val)
            /\ call.pc \in {"read", "returned"}

\* A call that found no cache file ended with the payload key missing.
C4_Witness ==
    /\ call.pc = "raised"
    /\ ~hist.fs[call.path].exists
    /\ ret.err = "KeyError"
    /\ ~fs[call.path].exists

-----------------------------------------------------------------------------
(* The claim about the UnixTimestamp column *)

\* C8: a value written through the codec as a "YYYY-MM-DD HH:MM:SS" string, or
\* as a datetime with whole seconds, is stored as an integer epoch second and
\* reads back as the datetime built from that second, which is the datetime
\* that was written.
C8_RoundTrip ==
    LET written == IF cin.kind = "str" THEN str_to_datetime(cin.chars)
                   ELSE [ok |-> cin.kind = "dt" /\ cin.dt.us = 0, dt |-> cin.dt]
    IN  (written.ok /\ out # OutUnset) =>
            /\ cell.kind = "int"
            /\ out = OutDt(FromTimestamp(tz, cell.secs, 0))
            /\ out.dt = written.dt

-----------------------------------------------------------------------------
(* The claims about the load loop *)

\* The Author, Mod, Tag and ModIdStr rows of a store.
Entities(st) == [author |-> st.author, mod |-> st.mod, tag |-> st.tag, modid_str |-> st.modid_str]

\* No two Author or Mod rows with one id, no two Tag rows with one tag, no two
\* ModIdStr rows with one alias.
KeysUnique(st) ==
    /\ \A r, q \in st.author : r.id = q.id => r = q
    /\ \A r, q \in st.mod : r.id = q.id => r = q
    /\ \A r, q \in st.tag : r.tag = q.tag => r = q
    /\ \A r, q \in st.modid_str : r.modid_str = q.modid_str => r = q

\* C2: a run of the loop on the input of a run that came to its end leaves the
\* Author, Mod, Tag and ModIdStr rows as that run left them and ends as it
\* ended; after any number of runs no key is stored twice.
C2_SecondRunAddsNothing ==
    /\ KeysUnique(store)
    /\ prev.status \in {"closed", "raised"} =>
           /\ Entities(store) = Entities(prev.store)
           /\ pc \in {"closed", "raised"} => pc = prev.status

\* A second run came to its end on a store the first run had filled from empty.
C2_Witness ==
    /\ runs = 2
    /\ prev.status = "closed"
    /\ pc = "closed"
    /\ store0 = EmptyStore
    /\ Cardinality(store.mod) = 2
    /\ Cardinality(store.tag) = 2
    /\ store.modid_str # {}

\* C3: after an interruption the rows committed before it are in the store,
\* and a rerun that comes to its end ends as the uninterrupted run from the
\* first store ends, with the same Author, Mod, Tag and ModIdStr rows,
\* whatever the ORM does with a tag appended to a mod that has it. (It
\* fails where the interrupted run had committed a Mod row that cannot be
\* loaded: the rerun stops at that row, the uninterrupted run went on to
\* commit a Tag.)
C3_RerunCompletesInterrupted ==
    prev.status = "killed" =>
        /\ prev.store.author \subseteq store.author
        /\ prev.store.mod \subseteq store.mod
        /\ prev.store.tag \subseteq store.tag
        /\ prev.store.modid_str \subseteq store.modid_str
        /\ prev.store.mod_tag \subseteq store.mod_tag
        /\ pc \in {"closed", "raised"} =>
               \A again \in BOOLEAN :
                   LET whole == Uninterrupted(store0, mods, authors_by_name, tz, again)
                   IN  /\ pc = whole.pc
                       /\ exc = whole.exc
                       /\ Entities(store) = Entities(whole.store)

\* The mod of the running iteration names an author the index does not have.
AuthorAbsent == mi \in DOMAIN mods /\ mods[mi].author \notin DOMAIN authors_by_name

\* C5: the iteration of a mod whose author is not in the index does not get
\* past the lookup: the run ends there with a KeyError, and the store is what
\* it was when the iteration began.
C5_MissingAuthorAborts ==
    AuthorAbsent =>
        /\ pc \in {"for_mod", "author", "killed", "raised"}
        /\ pc = "raised" =>
               /\ exc = "KeyError"
               /\ store = iterStore
               /\ pending = {}

\* The second mod of a run named an author without a name; the rows of the
\* first mod are stored.
C5_Witness ==
    /\ pc = "raised"
    /\ exc = "KeyError"
    /\ mi = 2
    /\ mods[mi].author = NULL
    /\ store0 = EmptyStore
    /\ store.mod # {}
    /\ store.mod_tag # {}

\* The tags that both mods of the input carry.
SharedTags ==
    IF Len(mods) < 2 THEN {}
    ELSE {mods[1].tags[i] : i \in DOMAIN mods[1].tags}
         \cap {mods[2].tags[i] : i \in DOMAIN mods[2].tags}

\* C6: after one run from an empty store, a tag that two mods of the input
\* carry has one Tag row and two mod_tag rows, one for each of the two mods.
C6_SharedTagOneRowTwoLinks ==
    (runs = 1 /\ store0 = EmptyStore /\ pc = "closed") =>
        \A t \in SharedTags :
            LET rows == {r \in store.tag : r.tag = t}
                links == {j \in store.mod_tag : \E r \in rows : j.tag_id = r.id}
            IN  /\ Cardinality(rows) = 1
                /\ Cardinality(links) = 2
                /\ {j.mod_id : j \in links} = {mods[1].modid, mods[2].modid}

\* One run ended; both mods carry "a", the first also "b".
C6_Witness ==
    /\ runs = 1
    /\ store0 = EmptyStore
    /\ pc = "closed"
    /\ SharedTags = {"a"}
    /\ Cardinality(store.tag) = 2
    /\ Cardinality(store.mod_tag) = 3

\* The rows of one table are kept, and the rows added have keys not stored.
OnlyAdds(old, new, Key(_)) ==
    /\ old \subseteq new
    /\ \A r \in new \ old : \A q \in old : Key(q) # Key(r)

IdOf(r) == r.id
TagOf(r) == r.tag
AliasOf(r) == r.modid_str

\* C7: no step of any run deletes or changes an Author, Mod, Tag or ModIdStr
\* row; a step only adds rows whose key is not stored.
C7_RowsOnlyAdded ==
    [][/\ OnlyAdds(store.author, store'.author, IdOf)
       /\ OnlyAdds(store.mod, store'.mod, IdOf)
       /\ OnlyAdds(store.tag, store'.tag, TagOf)
       /\ OnlyAdds(store.modid_str, store'.modid_str, AliasOf)]_vars

\* A run ended on an input that gives a stored mod another asset id and a
\* stored author another name; the run also added rows.
C7_Witness ==
    /\ pc = "closed"
    /\ \E i \in DOMAIN mods : \E r \in store.mod :
           r.id = mods[i].modid /\ r.assetid # mods[i].assetid
    /\ \E n \in DOMAIN authors_by_name : \E r \in store.author :
           r.id = authors_by_name[n].userid /\ r.name # n
    /\ store.tag # store0.tag

\* C9: in the committed store every Mod has its one Author, every ModIdStr
\* its Mod, every mod_tag row its Mod and its Tag.
C9_ReferencesExist ==
    /\ \A m \in store.mod : Cardinality({a \in store.author : a.id = m.author_id}) = 1
    /\ \A s \in store.modid_str : \E m \in store.mod : m.id = s.mod_id
    /\ \A j \in store.mod_tag :
           /\ \E m \in store.mod : m.id = j.mod_id
           /\ \E t \in store.tag : t.id = j.tag_id

\* A run from an empty store was killed after an alias and a tag link were
\* committed.
C9_Witness ==
    /\ pc = "killed"
    /\ store0 = EmptyStore
    /\ store.modid_str # {}
    /\ store.mod_tag # {}

-----------------------------------------------------------------------------
(* The claim about main as written *)

\* C10: main never is in the load loop, the store stays what it was, no
\* mod_version row exists that was not there; main ends by exit() when one
\* author named theysa is stored, by an AttributeError when none is.
C10_MainNeverLoads ==
    /\ pc \notin Running \cup {"closed", "killed"}
    /\ store = store0
    /\ pending = {}
    /\ store.mod_version = store0.mod_version
    /\ pc = "exited" => Cardinality({r \in store.author : r.name = "theysa"}) = 1
    /\ (pc = "raised" /\ exc = "AttributeError") => ~\E r \in store.author : r.name = "theysa"

\* main ended by exit() with both collections fetched over the network, a mod
\* in memory that the store does not hold.
C10_Witness ==
    /\ pc = "exited"
    /\ nGet = 2
    /\ \E i \in DOMAIN mods : \A r \in store.mod : r.id # mods[i].modid

=============================================================================
